---- MODULE Spec2Model ----
(***************************************************************************)
(* Model of micromeda-server: the result cache (cache.py and the copy of   *)
(* the same functions inside micromeda-server.py), the upload endpoint and *)
(* the read endpoints of micromeda-server.py, and allowed_file.            *)
(*                                                                         *)
(* Two programs live in the repository.  micromeda-server.py is            *)
(* self-contained: it defines its own cache_result (no expiry) and its own *)
(* get_result_cached_or_default / get_result_from_cache.  cache.py is the  *)
(* library form of the same functions, with a time-to-live.  The variable  *)
(* impl says which of the two is running; they never share a store.        *)
(*                                                                         *)
(* Collaborators outside the repository are modelled by their contract:    *)
(* Redis (SET with optional EX, GET, expiry by the clock), uuid.uuid4      *)
(* (a value never returned before), pandas / pygenprop serialisation (the  *)
(* three tables, without the tree), the file system, secure_filename.      *)
(*                                                                         *)
(* Spec is the upload endpoint served by concurrent request threads, step  *)
(* by step (save, extract, remove, cache).  SpecCache is the cache         *)
(* functions of both programs and the read endpoints, with the clock.      *)
(***************************************************************************)
EXTENDS Integers, Sequences, FiniteSets, TLC

\* ---------------------------------------------------------------- bounds
MaxTokens == 2      \* distinct uuid4 values available, so at most this many cache_result calls
MaxTime == 2        \* the clock runs 0..MaxTime (seconds)
MaxTtl == 1         \* cache_ttl arguments are 1..MaxTtl (seconds)
MaxUploads == 2     \* upload requests the server receives in one run

VARIABLES
    impl,       \* which program runs: "cache.py" or "micromeda-server.py"
    now,        \* the clock, in seconds
    store,      \* REDIS_CACHE: key -> [blob, expiresAt]
    issued,     \* log of the cache_result calls: <<[key, result, at, ttl]>>
    resp,       \* the get_result_cached_or_default call made by the last step, or None
    config,     \* flask_app.config: UPLOAD_FOLDER, PROPERTIES_TREE, DEFAULT_RESULTS
    up,         \* per request thread: the upload request it handles and how far it got
    files,      \* the uploads folder: file name -> content
    http,       \* the response of the read endpoint served by the last step, or None
    uploads     \* the number of upload requests received so far

vars == <<impl, now, store, issued, resp, config, up, files, http, uploads>>

\* ---------------------------------------------------------------- values
\* Python's None.
None == [type |-> "None"]

\* A Python str, as the sequence of its characters.  "" is Str(<<>>).
Str(chars) == [type |-> "str", chars |-> chars]

\* Python truthiness of an Optional[str]: None and "" are false.
Truthy(x) == x # None /\ Len(x.chars) > 0

\* The genome properties tree built once at startup.
PROPERTIES_TREE == [type |-> "tree", name |-> "PROPERTIES_TREE"]

\* A pandas DataFrame: its column labels (the sample names) and its cells.
Frame(columns, cells) == [columns |-> columns, cells |-> cells]

\* GenomePropertiesResultsWithMatches(*caches, properties_tree=tree)
GenomePropertiesResultsWithMatches(property_results, step_results, step_matches, properties_tree) ==
    [type |-> "result",
     property_results |-> property_results,
     step_results |-> step_results,
     step_matches |-> step_matches,
     tree |-> properties_tree,
     sample_names |-> property_results.columns]

\* class GenomePropertiesResultsWithMatchesCached.__init__
GenomePropertiesResultsWithMatchesCached(property_results_frame, step_results_frame, step_matches_frame, properties_tree) ==
    [type |-> "result",
     property_results |-> property_results_frame,
     step_results |-> step_results_frame,
     step_matches |-> step_matches_frame,
     tree |-> properties_tree,
     sample_names |-> property_results_frame.columns]

\* The results that uploads and the startup file can contain.
AnalysisResults ==
    { GenomePropertiesResultsWithMatches(Frame(<<"sampleA">>, "x"), Frame(<<"sampleA", "sampleB">>, "y"),
                                         Frame(<<"sampleB">>, "z"), PROPERTIES_TREE),
      GenomePropertiesResultsWithMatches(Frame(<<"sampleB">>, "z"), Frame(<<"sampleA">>, "x"),
                                         Frame(<<"sampleA">>, "x"), PROPERTIES_TREE) }

\* The three tables of a result, in the order property, step, match.
Tables(result) == <<result.property_results, result.step_results, result.step_matches>>

\* ---------------------------------------------------------------- codec
\* pd.to_msgpack(None, *results_frames): the frames, in argument order.
to_msgpack(results_frames) == [type |-> "bytes", format |-> "msgpack", frames |-> results_frames]

\* An exception that a call raised and nothing caught.
Raised(name) == [type |-> "exception", name |-> name]

\* Whether a value is a raised exception.
IsRaised(x) == x.type = "exception"

\* Whether pd.read_msgpack can read blob: it raises on bytes that
\* pd.to_msgpack of this version did not write.
msgpack_readable(blob) == blob.format = "msgpack"

\* pd.read_msgpack(blob) on readable bytes: the list of frames that were packed.
read_msgpack(blob) == blob.frames

\* result.to_serialization() of pygenprop: the three tables, without the tree.
to_serialization(result) ==
    [type |-> "bytes", format |-> "pygenprop",
     frames |-> <<result.property_results, result.step_results, result.step_matches>>]

\* load_results_from_serialization(blob, properties_tree) of pygenprop.
load_results_from_serialization(blob, properties_tree) ==
    IF blob.format = "pygenprop"
    THEN GenomePropertiesResultsWithMatches(blob.frames[1], blob.frames[2], blob.frames[3], properties_tree)
    ELSE Raised("ValueError")

\* ---------------------------------------------------------------- Redis
\* What Redis reports as the time-to-live of a key that has none.
NoExpiry == -1

\* redis_cache.set(key, data, ex=ex); ex = NoExpiry stands for ex=None.
redis_set_DropsOthers(st, key, data, ex, t) ==
    [k \in {key} |-> [blob |-> data, expiresAt |-> IF ex = NoExpiry THEN NoExpiry ELSE t + ex]]

\* redis_cache.set(key, data, ex=...): one entry written, the others kept.
redis_set(st, key, data, ex, t) ==
    [k \in DOMAIN st \cup {key} |->
        IF k = key
        THEN [blob |-> data, expiresAt |-> IF ex = NoExpiry THEN NoExpiry ELSE t + ex]
        ELSE st[k]]

\* redis_cache.get(key): the value, or None when the key is missing or expired.
redis_get(st, key, t) ==
    IF key \in DOMAIN st /\ (st[key].expiresAt = NoExpiry \/ t < st[key].expiresAt)
    THEN st[key].blob
    ELSE None

\* ---------------------------------------------------------------- uuid
\* The n-th of the hexadecimal strings uuid.uuid4().hex can return.
UuidHex(n) == Str(<<n>>)

IssuedKeys == { issued[i].key : i \in 1..Len(issued) }

\* uuid.uuid4().hex: any 128-bit random value; a value already returned
\* comes back with probability 2^-122 per call and is left out.
uuid4_hex == { UuidHex(n) : n \in 1..MaxTokens } \ IssuedKeys

\* Every string a cache_result call could return.
HexKeys == { UuidHex(n) : n \in 1..MaxTokens }

\* ---------------------------------------------------------------- cache.py
\* cache_result with the ex argument forgotten.
cache_result_NoExpiry(result, cache_ttl, key) ==
    /\ key \in uuid4_hex
    /\ LET data == to_serialization(result)
       IN  store' = redis_set(store, key, data, NoExpiry, now)
    /\ issued' = Append(issued, [key |-> key, result |-> result, at |-> now, ttl |-> cache_ttl])

\* cache_result(result, redis_cache, cache_ttl): key is the value returned.
cache_result(result, cache_ttl, key) ==
    /\ key \in uuid4_hex
    /\ LET data == to_serialization(result)
       IN  store' = redis_set(store, key, data, cache_ttl, now)
    /\ issued' = Append(issued, [key |-> key, result |-> result, at |-> now, ttl |-> cache_ttl])

\* get_result_cached_or_default falling back to the default when the key misses.
get_result_cached_or_default_FallsBack(st, t, properties_tree, results_key, default_results) ==
    IF Truthy(results_key)
    THEN LET cached_results == redis_get(st, results_key, t)
         IN  IF cached_results # None
             THEN [result |-> load_results_from_serialization(cached_results, properties_tree),
                   gets |-> <<results_key>>, decodes |-> 1]
             ELSE [result |-> default_results, gets |-> <<results_key>>, decodes |-> 0]
    ELSE IF default_results # None
         THEN [result |-> default_results, gets |-> <<>>, decodes |-> 0]
         ELSE [result |-> None, gets |-> <<>>, decodes |-> 0]

\* get_result_cached_or_default of cache.py, on the store st at time t.
\* result is the value returned; gets are the keys it asked Redis for and
\* decodes the number of blobs it deserialised.
get_result_cached_or_default(st, t, properties_tree, results_key, default_results) ==
    IF Truthy(results_key)
    THEN LET cached_results == redis_get(st, results_key, t)
         IN  IF cached_results # None
             THEN [result |-> load_results_from_serialization(cached_results, properties_tree),
                   gets |-> <<results_key>>, decodes |-> 1]
             ELSE [result |-> None, gets |-> <<results_key>>, decodes |-> 0]
    ELSE IF default_results # None
         THEN [result |-> default_results, gets |-> <<>>, decodes |-> 0]
         ELSE [result |-> None, gets |-> <<>>, decodes |-> 0]

\* ---------------------------------------------------------------- micromeda-server.py
\* cache_result with the key computed from the content instead of uuid4.
server_cache_result_ContentKey(result, key) ==
    /\ key = UuidHex(Len(result.sample_names))
    /\ LET results_frames == <<result.property_results, result.step_results, result.step_matches>>
           data == to_msgpack(results_frames)
       IN  store' = redis_set(store, key, data, NoExpiry, now)
    /\ issued' = Append(issued, [key |-> key, result |-> result, at |-> now, ttl |-> NoExpiry])

\* cache_result packing the step table first.
server_cache_result_Reordered(result, key) ==
    /\ key \in uuid4_hex
    /\ LET results_frames == <<result.step_results, result.property_results, result.step_matches>>
           data == to_msgpack(results_frames)
       IN  store' = redis_set(store, key, data, NoExpiry, now)
    /\ issued' = Append(issued, [key |-> key, result |-> result, at |-> now, ttl |-> NoExpiry])

\* cache_result(result, redis_cache) of micromeda-server.py: no expiry is given.
server_cache_result(result, key) ==
    /\ key \in uuid4_hex
    /\ LET results_frames == <<result.property_results, result.step_results, result.step_matches>>
           data == to_msgpack(results_frames)
       IN  store' = redis_set(store, key, data, NoExpiry, now)
    /\ issued' = Append(issued, [key |-> key, result |-> result, at |-> now, ttl |-> NoExpiry])

\* get_result_from_cache with the first two frames taken in the wrong order.
get_result_from_cache_Swapped(key, st, t, properties_tree) ==
    LET cached_results == redis_get(st, key, t)
    IN  IF cached_results # None
        THEN LET stored_dataframes == read_msgpack(cached_results)
                 property_results == stored_dataframes[2]
                 step_results == stored_dataframes[1]
                 step_matches == stored_dataframes[3]
             IN  IF ~msgpack_readable(cached_results)
                 THEN [result |-> Raised("ValueError"), gets |-> <<key>>, decodes |-> 1]
                 ELSE [result |-> GenomePropertiesResultsWithMatchesCached(property_results, step_results,
                                                                           step_matches, properties_tree),
                       gets |-> <<key>>, decodes |-> 1]
        ELSE [result |-> None, gets |-> <<key>>, decodes |-> 0]

\* get_result_from_cache(key, redis_cache, properties_tree)
get_result_from_cache(key, st, t, properties_tree) ==
    LET cached_results == redis_get(st, key, t)
    IN  IF cached_results # None
        THEN LET stored_dataframes == read_msgpack(cached_results)
                 property_results == stored_dataframes[1]
                 step_results == stored_dataframes[2]
                 step_matches == stored_dataframes[3]
             IN  IF ~msgpack_readable(cached_results)
                 THEN [result |-> Raised("ValueError"), gets |-> <<key>>, decodes |-> 1]
                 ELSE [result |-> GenomePropertiesResultsWithMatchesCached(property_results, step_results,
                                                                           step_matches, properties_tree),
                       gets |-> <<key>>, decodes |-> 1]
        ELSE [result |-> None, gets |-> <<key>>, decodes |-> 0]

\* get_result_cached_or_default without the elif branch.
server_get_result_cached_or_default_NoDefault(st, t, properties_tree, results_key, default_results) ==
    IF Truthy(results_key)
    THEN get_result_from_cache(results_key, st, t, properties_tree)
    ELSE [result |-> None, gets |-> <<>>, decodes |-> 0]

\* get_result_cached_or_default of micromeda-server.py
server_get_result_cached_or_default(st, t, properties_tree, results_key, default_results) ==
    IF Truthy(results_key)
    THEN get_result_from_cache(results_key, st, t, properties_tree)
    ELSE IF default_results # None
         THEN [result |-> default_results, gets |-> <<>>, decodes |-> 0]
         ELSE [result |-> None, gets |-> <<>>, decodes |-> 0]

\* ---------------------------------------------------------------- request threads
\* The threads that serve requests at the same time.
Workers == {"w1", "w2"}

\* A thread that has served no upload yet.
Idle == [pc |-> "idle", file |-> None, out_path |-> None, result |-> None, response |-> None, extracted |-> 0]

\* ---------------------------------------------------------------- inputs
\* A key that is no uuid: "abc123".
MalformedKey == Str(<<0>>)

\* A key handed out by an earlier run of the server, still held by a client.
StaleKey == UuidHex(MaxTokens + 1)

\* What a caller can pass as results_key: nothing, "", a non-uuid, any uuid.
RequestKeys == {None, Str(<<>>), MalformedKey, StaleKey} \cup { UuidHex(n) : n \in 1..MaxTokens }

\* What a caller can pass as default_results.
Defaults == {None} \cup AnalysisResults

\* The record of one get_result_cached_or_default call.
Resolved(key, default, tree, ret) ==
    [key |-> key, default |-> default, tree |-> tree, at |-> now,
     result |-> ret.result, gets |-> ret.gets, decodes |-> ret.decodes]

\* ---------------------------------------------------------------- the cache and the read endpoints
\* The cache functions called directly, and the endpoints that read through
\* them.  A finished upload is its cache_result call here: reads see uploads
\* only through the store.
CacheResult ==
    /\ impl = "cache.py"
    /\ \E result \in AnalysisResults, cache_ttl \in 1..MaxTtl, key \in HexKeys :
           cache_result(result, cache_ttl, key)
    /\ resp' = None
    /\ http' = None
    /\ UNCHANGED <<impl, now, config, up, files, uploads>>

ServerCacheResult ==
    /\ impl = "micromeda-server.py"
    /\ \E result \in AnalysisResults, key \in HexKeys :
           server_cache_result(result, key)
    /\ resp' = None
    /\ http' = None
    /\ UNCHANGED <<impl, now, config, up, files, uploads>>

Resolve ==
    /\ impl = "cache.py"
    /\ \E key \in RequestKeys, default \in Defaults :
           resp' = Resolved(key, default, PROPERTIES_TREE,
                            get_result_cached_or_default(store, now, PROPERTIES_TREE, key, default))
    /\ http' = None
    /\ UNCHANGED <<impl, now, store, issued, config, up, files, uploads>>

ServerResolve ==
    /\ impl = "micromeda-server.py"
    /\ \E key \in RequestKeys, default \in Defaults :
           resp' = Resolved(key, default, PROPERTIES_TREE,
                            server_get_result_cached_or_default(store, now, PROPERTIES_TREE, key, default))
    /\ http' = None
    /\ UNCHANGED <<impl, now, store, issued, config, up, files, uploads>>

\* ---------------------------------------------------------------- read endpoints
\* get_tree() answering a request without key from the latest upload.
GetTree_LatestUpload ==
    /\ impl = "micromeda-server.py"
    /\ \E result_key \in RequestKeys :
           LET default_results == IF issued = <<>> THEN config.DEFAULT_RESULTS ELSE issued[Len(issued)].result
               ret == server_get_result_cached_or_default(store, now, config.PROPERTIES_TREE,
                                                          result_key, default_results)
           IN  /\ resp' = Resolved(result_key, config.DEFAULT_RESULTS, config.PROPERTIES_TREE, ret)
               /\ http' = IF ret.result # None
                          THEN [endpoint |-> "get_tree", status |-> 200, body |-> ret.result]
                          ELSE [endpoint |-> "get_tree", status |-> 404, body |-> "No tree found."]
    /\ UNCHANGED <<impl, now, store, issued, config, up, files, uploads>>

\* get_tree(): /genome_properties_tree?result_key=...
GetTree ==
    /\ impl = "micromeda-server.py"
    /\ \E result_key \in RequestKeys :
           LET ret == server_get_result_cached_or_default(store, now, config.PROPERTIES_TREE,
                                                          result_key, config.DEFAULT_RESULTS)
           IN  /\ resp' = Resolved(result_key, config.DEFAULT_RESULTS, config.PROPERTIES_TREE, ret)
               /\ http' = IF IsRaised(ret.result)
                          THEN [endpoint |-> "get_tree", status |-> 500, body |-> "Internal Server Error"]
                          ELSE IF ret.result # None
                          THEN [endpoint |-> "get_tree", status |-> 200, body |-> ret.result]
                          ELSE [endpoint |-> "get_tree", status |-> 404, body |-> "No tree found."]
    /\ UNCHANGED <<impl, now, store, issued, config, up, files, uploads>>

\* get_fasta(): /fasta/<property_id>/<step_number>?result_key=...
\* The tree handed to the cache is DEFAULT_RESULTS; a file is always sent.
\* Writing the FASTA looks the property up in result.tree, which raises when
\* that is no tree.
GetFasta ==
    /\ impl = "micromeda-server.py"
    /\ \E result_key \in RequestKeys :
           LET ret == server_get_result_cached_or_default(store, now, config.DEFAULT_RESULTS,
                                                          result_key, config.DEFAULT_RESULTS)
           IN  /\ resp' = Resolved(result_key, config.DEFAULT_RESULTS, config.DEFAULT_RESULTS, ret)
               /\ http' = IF IsRaised(ret.result)
                          THEN [endpoint |-> "get_fasta", status |-> 500, body |-> "Internal Server Error"]
                          ELSE IF ret.result = None
                          THEN [endpoint |-> "get_fasta", status |-> 200, body |-> "empty"]
                          ELSE IF ret.result.tree.type = "tree"
                          THEN [endpoint |-> "get_fasta", status |-> 200, body |-> ret.result]
                          ELSE [endpoint |-> "get_fasta", status |-> 500, body |-> "Internal Server Error"]
    /\ UNCHANGED <<impl, now, store, issued, config, up, files, uploads>>

\* One second passes; Redis expires entries by this clock.  Only cache.py
\* gives its entries an expiry, so only there does the clock decide anything.
Tick ==
    /\ impl = "cache.py"
    /\ now < MaxTime
    /\ now' = now + 1
    /\ resp' = None
    /\ http' = None
    /\ UNCHANGED <<impl, store, issued, config, up, files, uploads>>

InitCache ==
    /\ impl \in {"cache.py", "micromeda-server.py"}
    /\ now = 0
    /\ store = <<>>
    /\ issued = <<>>
    /\ resp = None
    /\ \E default_results \in Defaults :
           /\ impl = "cache.py" => default_results = None
           /\ config = [UPLOAD_FOLDER |-> "uploads", PROPERTIES_TREE |-> PROPERTIES_TREE,
                        DEFAULT_RESULTS |-> default_results]
    /\ up = [w \in Workers |-> Idle]
    /\ files = <<>>
    /\ http = None
    /\ uploads = 0

NextCache == CacheResult \/ ServerCacheResult \/ Resolve \/ ServerResolve \/ GetTree \/ GetFasta \/ Tick

SpecCache == InitCache /\ [][NextCache]_vars

\* ---------------------------------------------------------------- after a restart
\* What an earlier run can have left in Redis under a key of its own: bytes cut
\* short, or bytes written by another version of the serialisation.
StaleBlobs ==
    { [type |-> "bytes", format |-> "truncated", frames |-> <<>>],
      [type |-> "bytes", format |-> "other version", frames |-> <<>>] }

\* The program starts on a Redis that kept such an entry: Redis outlives the
\* process and entries without expiry are never removed.
InitStale ==
    /\ impl \in {"cache.py", "micromeda-server.py"}
    /\ now = 0
    /\ \E blob \in StaleBlobs : store = redis_set(<<>>, StaleKey, blob, NoExpiry, 0)
    /\ issued = <<>>
    /\ resp = None
    /\ \E default_results \in Defaults :
           /\ impl = "cache.py" => default_results = None
           /\ config = [UPLOAD_FOLDER |-> "uploads", PROPERTIES_TREE |-> PROPERTIES_TREE,
                        DEFAULT_RESULTS |-> default_results]
    /\ up = [w \in Workers |-> Idle]
    /\ files = <<>>
    /\ http = None
    /\ uploads = 0

SpecStale == InitStale /\ [][NextCache]_vars

\* ---------------------------------------------------------------- file names
\* A file name is the sequence of its pieces: "." or a run of other characters.
\* str.lower() on one piece.
LowerPiece(c) ==
    CASE c = "Sqlite3" -> "sqlite3"
      [] c = "SQLITE" -> "sqlite"
      [] c = "Data" -> "data"
      [] OTHER -> c

\* s.lower()
lower(s) == [i \in DOMAIN s |-> LowerPiece(s[i])]

\* sep in s
Contains(s, sep) == \E i \in DOMAIN s : s[i] = sep

\* The position of the last sep in s[1..n], 0 when there is none.
RECURSIVE rfind(_, _, _)
rfind(s, sep, n) ==
    IF n = 0 THEN 0
    ELSE IF s[n] = sep THEN n
    ELSE rfind(s, sep, n - 1)

\* s.rsplit(sep, 1): the list of at most two parts, split at the last sep.
rsplit1(s, sep) ==
    LET i == rfind(s, sep, Len(s))
    IN  IF i = 0 THEN <<s>> ELSE <<SubSeq(s, 1, i - 1), SubSeq(s, i + 1, Len(s))>>

\* allowed_file(filename)
allowed_file(filename) ==
    /\ Contains(filename, ".")
    /\ lower(rsplit1(filename, ".")[2]) \in {<<"micro">>, <<"sqlite">>, <<"sqlite3">>}

\* s.strip("."): s without its leading and trailing dots.
RECURSIVE strip_dots(_)
strip_dots(s) ==
    IF s = <<>> THEN s
    ELSE IF Head(s) = "." THEN strip_dots(Tail(s))
    ELSE IF s[Len(s)] = "." THEN strip_dots(SubSeq(s, 1, Len(s) - 1))
    ELSE s

\* werkzeug's secure_filename on names made of ASCII letters, digits and dots.
secure_filename(filename) == strip_dots(filename)

\* The file names clients upload.
FileNames ==
    { <<"data", ".", "micro">>,
      <<"v1", ".", "Data", ".", "Sqlite3">>,
      <<"data", ".", "SQLITE">>,
      <<"data", ".", "sqlite3", ".">>,
      <<"data", ".", "sqlite3", ".", "exe">>,
      <<"sqlite3">> }

\* ---------------------------------------------------------------- file contents
\* A micromeda file: an SQLite database holding the three tables.
Database(property_results, step_results, step_matches) ==
    [type |-> "sqlite", frames |-> <<property_results, step_results, step_matches>>]

\* Bytes that are no SQLite database.
Garbage == [type |-> "garbage"]

\* The zero-length file SQLite creates when it opens a path that does not exist.
EmptyFile == [type |-> "empty"]

\* The bodies clients upload.
FileBytes == { Database(r.property_results, r.step_results, r.step_matches) : r \in AnalysisResults } \cup {Garbage}

\* Whether load_assignment_caches_from_database_with_matches can read content.
Readable(content) == content.type = "sqlite"

\* extract_results_from_micromeda_file(path, tree) on a readable file.
extract_results_from_micromeda_file(content, genome_properties_tree) ==
    LET caches == content.frames
    IN  GenomePropertiesResultsWithMatches(caches[1], caches[2], caches[3], genome_properties_tree)

\* file.save(path)
file_save(fs, path, bytes) == [f \in DOMAIN fs \cup {path} |-> IF f = path THEN bytes ELSE fs[f]]

\* os.remove(path) of an existing file
os_remove(fs, path) == [f \in DOMAIN fs \ {path} |-> fs[f]]

\* ---------------------------------------------------------------- upload endpoint
\* Whether a thread is free to take the next upload request.
Free(w) == up[w].pc \in {"idle", "done"}

\* What Flask answers when the handler raises.
InternalServerError == [status |-> 500, body |-> "Internal Server Error"]

\* upload() saving the file before it looks at the extension.
UploadReject_SavesFirst(w) ==
    /\ impl = "micromeda-server.py"
    /\ Free(w)
    /\ uploads < MaxUploads
    /\ uploads' = uploads + 1
    /\ \E filename \in FileNames, bytes \in FileBytes :
           /\ ~allowed_file(filename)
           /\ files' = file_save(files, secure_filename(filename), bytes)
           /\ up' = [up EXCEPT ![w] = [pc |-> "done",
                                       file |-> [filename |-> filename, bytes |-> None],
                                       out_path |-> None, result |-> None,
                                       response |-> [status |-> 404, body |-> "Upload failed"],
                                       extracted |-> 0]]
    /\ resp' = None
    /\ http' = None
    /\ UNCHANGED <<impl, now, store, issued, config>>

\* upload(), file name refused: the else branch.  The body is never read.
UploadReject(w) ==
    /\ impl = "micromeda-server.py"
    /\ Free(w)
    /\ uploads < MaxUploads
    /\ uploads' = uploads + 1
    /\ \E filename \in FileNames :
           /\ ~allowed_file(filename)
           /\ up' = [up EXCEPT ![w] = [pc |-> "done",
                                       file |-> [filename |-> filename, bytes |-> None],
                                       out_path |-> None, result |-> None,
                                       response |-> [status |-> 404, body |-> "Upload failed"],
                                       extracted |-> 0]]
    /\ resp' = None
    /\ http' = None
    /\ UNCHANGED <<impl, now, store, issued, config, files>>

\* upload(), file name accepted: secure_filename, os.path.join, file.save.
UploadSave(w) ==
    /\ impl = "micromeda-server.py"
    /\ Free(w)
    /\ uploads < MaxUploads
    /\ uploads' = uploads + 1
    /\ \E filename \in FileNames, bytes \in FileBytes :
           /\ allowed_file(filename)
           /\ LET out_path == secure_filename(filename)
              IN  /\ files' = file_save(files, out_path, bytes)
                  /\ up' = [up EXCEPT ![w] = [pc |-> "saved",
                                              file |-> [filename |-> filename, bytes |-> bytes],
                                              out_path |-> out_path, result |-> None,
                                              response |-> None, extracted |-> 0]]
    /\ resp' = None
    /\ http' = None
    /\ UNCHANGED <<impl, now, store, issued, config>>

\* upload() going on with empty tables when the file cannot be read.
UploadExtract_CachesPartial(w) ==
    /\ up[w].pc = "saved"
    /\ LET out_path == up[w].out_path
           partial == GenomePropertiesResultsWithMatches(Frame(<<>>, ""), Frame(<<>>, ""), Frame(<<>>, ""),
                                                        config.PROPERTIES_TREE)
       IN  /\ up' = [up EXCEPT ![w].pc = "extracted",
                               ![w].extracted = 1,
                               ![w].result = IF out_path \in DOMAIN files /\ Readable(files[out_path])
                                             THEN extract_results_from_micromeda_file(files[out_path],
                                                                                      config.PROPERTIES_TREE)
                                             ELSE partial]
           /\ files' = IF out_path \in DOMAIN files THEN files ELSE file_save(files, out_path, EmptyFile)
    /\ resp' = None
    /\ http' = None
    /\ UNCHANGED <<impl, now, store, issued, config, uploads>>

\* upload(): extract_results_from_micromeda_file(out_path, PROPERTIES_TREE).
\* SQLite creates an empty file when the path is gone, then the load raises;
\* a file that is no database makes the load raise.  Nothing catches it.
UploadExtract(w) ==
    /\ up[w].pc = "saved"
    /\ LET out_path == up[w].out_path
       IN  IF out_path \in DOMAIN files /\ Readable(files[out_path])
           THEN /\ up' = [up EXCEPT ![w].pc = "extracted",
                                    ![w].extracted = 1,
                                    ![w].result = extract_results_from_micromeda_file(files[out_path],
                                                                                      config.PROPERTIES_TREE)]
                /\ files' = files
           ELSE /\ up' = [up EXCEPT ![w].pc = "done",
                                    ![w].extracted = 1,
                                    ![w].response = InternalServerError]
                /\ files' = IF out_path \in DOMAIN files THEN files ELSE file_save(files, out_path, EmptyFile)
    /\ resp' = None
    /\ http' = None
    /\ UNCHANGED <<impl, now, store, issued, config, uploads>>

\* upload(): os.remove(out_path); FileNotFoundError when the file is gone.
UploadRemove(w) ==
    /\ up[w].pc = "extracted"
    /\ LET out_path == up[w].out_path
       IN  IF out_path \in DOMAIN files
           THEN /\ files' = os_remove(files, out_path)
                /\ up' = [up EXCEPT ![w].pc = "removed"]
           ELSE /\ files' = files
                /\ up' = [up EXCEPT ![w].pc = "done", ![w].response = InternalServerError]
    /\ resp' = None
    /\ http' = None
    /\ UNCHANGED <<impl, now, store, issued, config, uploads>>

\* upload(): cache_result(result, REDIS_CACHE) and the JSON answer.
UploadCache(w) ==
    /\ up[w].pc = "removed"
    /\ \E result_key \in HexKeys :
           /\ server_cache_result(up[w].result, result_key)
           /\ up' = [up EXCEPT ![w].pc = "done",
                               ![w].response = [status |-> 200, result_key |-> result_key]]
    /\ resp' = None
    /\ http' = None
    /\ UNCHANGED <<impl, now, config, files, uploads>>

\* ---------------------------------------------------------------- the upload endpoint under concurrent requests
\* create_app(config): the tree is parsed, the default results are loaded or None.
Init ==
    /\ impl = "micromeda-server.py"
    /\ now = 0
    /\ store = <<>>
    /\ issued = <<>>
    /\ resp = None
    /\ \E default_results \in Defaults :
           config = [UPLOAD_FOLDER |-> "uploads", PROPERTIES_TREE |-> PROPERTIES_TREE,
                     DEFAULT_RESULTS |-> default_results]
    /\ up = [w \in Workers |-> Idle]
    /\ files = <<>>
    /\ http = None
    /\ uploads = 0

Next ==
    \/ \E w \in Workers : UploadReject(w)
    \/ \E w \in Workers : UploadSave(w)
    \/ \E w \in Workers : UploadExtract(w)
    \/ \E w \in Workers : UploadRemove(w)
    \/ \E w \in Workers : UploadCache(w)

Spec == Init /\ [][Next]_vars

\* ================================================================ claims
\* Whether the cache_result calls made so far left key live at time t.
LiveAt(key, t) ==
    \E i \in 1..Len(issued) :
        /\ issued[i].key = key
        /\ (issued[i].ttl = NoExpiry \/ t < issued[i].at + issued[i].ttl)

\* The result that was cached under key.
IssuedResult(key) == issued[CHOOSE i \in 1..Len(issued) : issued[i].key = key].result

\* C1: a non-empty requested key that names no live entry (never stored, or
\* stored and expired) resolves to None, whatever the default is.
C1_ExplicitMissIsAbsent ==
    (resp # None /\ Truthy(resp.key) /\ ~LiveAt(resp.key, resp.at)) => resp.result = None

\* A key that was stored and has expired is asked for, with a default present.
C1_Witness ==
    /\ resp # None
    /\ Truthy(resp.key)
    /\ resp.key \in IssuedKeys
    /\ ~LiveAt(resp.key, resp.at)
    /\ resp.default # None
    /\ resp.result = None

\* C2: while the entry of a returned key is live, resolving that key yields
\* the tables of the result cached under it, bound to the tree passed in,
\* whatever the default is and whatever was cached or resolved in between.
C2_LiveKeyYieldsStoredResult ==
    (resp # None /\ Truthy(resp.key) /\ LiveAt(resp.key, resp.at)) =>
        /\ resp.result # None
        /\ Tables(resp.result) = Tables(IssuedResult(resp.key))
        /\ resp.result.tree = resp.tree
        /\ resp.gets = <<resp.key>>

\* The first of two cached results is resolved with a different default present.
C2_Witness ==
    /\ resp # None
    /\ Len(issued) = 2
    /\ resp.key = issued[1].key
    /\ LiveAt(resp.key, resp.at)
    /\ resp.default # None
    /\ Tables(resp.default) # Tables(issued[1].result)
    /\ Tables(resp.result) = Tables(issued[1].result)

\* C3: with no key supplied the call returns its default_results argument
\* itself (None when there is none), asks Redis for nothing and decodes nothing.
C3_NoKeyYieldsDefault ==
    (resp # None /\ resp.key = None) =>
        /\ resp.result = resp.default
        /\ resp.gets = <<>>
        /\ resp.decodes = 0

\* No key, a default present, and a live entry in the store.
C3_Witness ==
    /\ resp # None
    /\ resp.key = None
    /\ resp.default # None
    /\ resp.result = resp.default
    /\ \E i \in 1..Len(issued) : LiveAt(issued[i].key, resp.at)

\* C4: every supplied key that names no live entry, the empty string
\* included, resolves to None and never to the default.
C4_SuppliedMissIsAbsent ==
    (resp # None /\ resp.key # None /\ ~LiveAt(resp.key, resp.at)) => resp.result = None

\* C5: an entry cached with cache_ttl = n at time t is returned at every time
\* before t + n and is absent at every time from t + n on.
C5_EntryLivesExactlyItsTtl ==
    \A i \in 1..Len(issued) :
        issued[i].ttl # NoExpiry =>
            \A default \in Defaults :
                LET ret == get_result_cached_or_default(store, now, PROPERTIES_TREE, issued[i].key, default)
                IN  /\ now < issued[i].at + issued[i].ttl =>
                           ret.result # None /\ Tables(ret.result) = Tables(issued[i].result)
                    /\ now >= issued[i].at + issued[i].ttl => ret.result = None

\* An entry was read back before its expiry time and the clock is now past it.
C5_Witness ==
    \E i \in 1..Len(issued) :
        /\ issued[i].ttl # NoExpiry
        /\ now >= issued[i].at + issued[i].ttl
        /\ resp # None
        /\ resp.key = issued[i].key
        /\ resp.result = None

\* C6: every entry the upload endpoint puts in the store carries an expiry time.
C6_UploadedEntriesExpire ==
    \A key \in DOMAIN store : store[key].expiresAt # NoExpiry

\* C7: the keys returned by cache_result are pairwise distinct, and each call
\* adds an entry of its own, also when the same result is cached twice.
C7_KeysPairwiseDistinct ==
    /\ \A i, j \in 1..Len(issued) : i # j => issued[i].key # issued[j].key
    /\ Cardinality(DOMAIN store) = Len(issued)

\* The same result was cached twice.
C7_Witness ==
    /\ Len(issued) >= 2
    /\ issued[1].result = issued[2].result
    /\ issued[1].key # issued[2].key
    /\ {issued[1].key, issued[2].key} \subseteq DOMAIN store

\* The step in which thread w takes an upload request whose file name is refused.
Refused(w) ==
    /\ uploads' = uploads + 1
    /\ up'[w] # up[w]
    /\ up'[w].file # None
    /\ ~allowed_file(up'[w].file.filename)

\* C8: an upload whose file name is refused writes no file, creates no store
\* entry, returns no key, never calls the extraction, and is answered 404.
C8_RefusedUploadHasNoEffect ==
    [][\A w \in Workers :
          Refused(w) =>
              /\ files' = files
              /\ store' = store
              /\ issued' = issued
              /\ up'[w].extracted = 0
              /\ up'[w].pc = "done"
              /\ up'[w].response = [status |-> 404, body |-> "Upload failed"]]_vars

\* A refused upload was answered while another upload had its file on disk.
C8_Witness ==
    \E w \in Workers :
        /\ up[w].file # None
        /\ ~allowed_file(up[w].file.filename)
        /\ up[w].response.status = 404
        /\ files # <<>>

\* The extensions the documentation of allowed_file names.
AllowedExtensions == {<<"micro">>, <<"sqlite">>, <<"sqlite3">>}

\* filename has a dot, and what follows its last dot is, lower-cased, allowed.
HasAllowedSuffix(filename) ==
    \E i \in DOMAIN filename :
        /\ filename[i] = "."
        /\ \A j \in DOMAIN filename : j > i => filename[j] # "."
        /\ lower(SubSeq(filename, i + 1, Len(filename))) \in AllowedExtensions

\* C9: allowed_file accepts exactly the names with an allowed final suffix;
\* a refused name is answered 404 without extraction; an accepted upload
\* calls the extraction and answers with the key under which the result the
\* extraction returned is stored.
C9_AcceptedIffAllowedSuffix ==
    /\ \A filename \in FileNames : allowed_file(filename) <=> HasAllowedSuffix(filename)
    /\ \A w \in Workers :
           up[w].file # None =>
               IF HasAllowedSuffix(up[w].file.filename)
               THEN up[w].pc = "done" =>
                        /\ up[w].extracted = 1
                        /\ up[w].result # None =>
                               /\ up[w].response.status = 200
                               /\ up[w].response.result_key \in DOMAIN store
                               /\ store[up[w].response.result_key].blob.frames = Tables(up[w].result)
               ELSE /\ up[w].pc = "done"
                    /\ up[w].extracted = 0
                    /\ up[w].response.status = 404

\* C10: once no upload is being handled, no uploaded file is left in the
\* uploads folder, whether the uploads ended with a key or with an error.
C10_NoTempFileRemains ==
    (\A w \in Workers : Free(w)) => files = <<>>

\* What the running program decodes from the entry of the i-th cache_result
\* call at the time of that call, given the tree of the result that was cached.
DecodedAgain(i) ==
    IF impl = "cache.py"
    THEN get_result_cached_or_default(store, issued[i].at, issued[i].result.tree, issued[i].key, None).result
    ELSE get_result_from_cache(issued[i].key, store, issued[i].at, issued[i].result.tree).result

\* C11: decoding the blob that encodes r, with the tree of r, gives a result
\* whose property, step and match tables are those of r, each in its own
\* field, bound to that tree.
C11_RoundTrip ==
    \A i \in 1..Len(issued) :
        LET r == issued[i].result
            d == DecodedAgain(i)
        IN  /\ d # None
            /\ d.property_results = r.property_results
            /\ d.step_results = r.step_results
            /\ d.step_matches = r.step_matches
            /\ d.tree = r.tree

\* A result with three different tables was cached and read back.
C11_Witness ==
    /\ resp # None
    /\ resp.key \in IssuedKeys
    /\ resp.result # None
    /\ resp.result.property_results # resp.result.step_results
    /\ resp.result.step_results # resp.result.step_matches
    /\ resp.result.property_results # resp.result.step_matches
    /\ Tables(resp.result) = Tables(IssuedResult(resp.key))

\* Whether the running program can decode blob.
Decodable(blob) ==
    IF impl = "cache.py" THEN blob.format = "pygenprop" ELSE msgpack_readable(blob)

\* C12: when the blob under the requested key cannot be decoded, the call
\* returns None instead of raising, and an endpoint answers 404.
C12_UndecodableBlobIsAbsent ==
    (/\ resp # None
     /\ Truthy(resp.key)
     /\ redis_get(store, resp.key, resp.at) # None
     /\ ~Decodable(redis_get(store, resp.key, resp.at))) =>
        /\ resp.result = None
        /\ http # None => http.status = 404

\* C13: the tree endpoint and the FASTA endpoint answer 404 whenever the
\* resolution yields None, and answer 200 only when it yielded a result.
C13_AbsentIsNotFound ==
    (http # None /\ resp # None) =>
        /\ resp.result = None => http.status = 404
        /\ http.status = 200 => (resp.result # None /\ ~IsRaised(resp.result))

\* C14: every upload of a readable file under an accepted name, whatever
\* runs beside it, ends with a key of its own whose entry holds the tables of
\* the bytes that this upload sent.
C14_ConcurrentUploadsIndependent ==
    /\ \A w \in Workers :
           (/\ up[w].pc = "done"
            /\ up[w].file # None
            /\ allowed_file(up[w].file.filename)
            /\ Readable(up[w].file.bytes)) =>
               /\ up[w].response.status = 200
               /\ up[w].response.result_key \in DOMAIN store
               /\ store[up[w].response.result_key].blob.frames = up[w].file.bytes.frames
    /\ \A w1, w2 \in Workers :
           (/\ w1 # w2
            /\ up[w1].pc = "done" /\ up[w1].response.status = 200
            /\ up[w2].pc = "done" /\ up[w2].response.status = 200) =>
               up[w1].response.result_key # up[w2].response.result_key

\* C15: in every state a get can observe, each key in the store has its
\* blob and its expiry both set; no key has one without the other.
C15_BlobAndExpiryTogether ==
    \A key \in DOMAIN store :
        /\ store[key].blob # None
        /\ (store[key].blob # None) <=> (store[key].expiresAt # NoExpiry)

\* C16: whenever a read endpoint decodes a stored blob, the tree it passes is
\* the PROPERTIES_TREE of the configuration, the tree the cached result was
\* extracted with, and the result it gets is bound to that tree.
C16_DecodedWithPropertiesTree ==
    (http # None /\ resp # None /\ resp.decodes = 1) =>
        /\ resp.tree = config.PROPERTIES_TREE
        /\ resp.tree = IssuedResult(resp.key).tree
        /\ resp.result.tree = config.PROPERTIES_TREE

\* C17: no step changes or removes an entry of the store; a step adds at most
\* one entry, under a key not in the store before; a resolve adds none; and
\* from the time of its cache_result call until it expires each key yields
\* the blob that call wrote.
C17_EntriesImmutable ==
    [][/\ \A key \in DOMAIN store : key \in DOMAIN store' /\ store'[key] = store[key]
       /\ Cardinality(DOMAIN store' \ DOMAIN store) <= 1
       /\ resp' # None => store' = store
       /\ \A i \in 1..Len(issued'), t \in 0..MaxTime :
              (/\ t >= issued'[i].at
               /\ (issued'[i].ttl = NoExpiry \/ t < issued'[i].at + issued'[i].ttl)) =>
                  redis_get(store', issued'[i].key, t).frames = Tables(issued'[i].result)]_vars

\* Two different results are in the store and the first is read back unchanged.
C17_Witness ==
    /\ resp # None
    /\ Len(issued) = 2
    /\ DOMAIN store = IssuedKeys
    /\ Cardinality(DOMAIN store) = 2
    /\ issued[1].result # issued[2].result
    /\ resp.key = issued[1].key
    /\ resp.result # None
    /\ store[resp.key].blob.frames = Tables(issued[1].result)

\* C18: no step changes the default result of the configuration, and every
\* endpoint request without key resolves to it, whatever was cached before.
C18_DefaultIsResident ==
    [][/\ config'.DEFAULT_RESULTS = config.DEFAULT_RESULTS
       /\ (http' # None /\ resp'.key = None) => resp'.result = config.DEFAULT_RESULTS]_vars

\* A request without key gets the default while the store holds another result.
C18_Witness ==
    /\ http # None
    /\ resp.key = None
    /\ config.DEFAULT_RESULTS # None
    /\ resp.result = config.DEFAULT_RESULTS
    /\ issued # <<>>
    /\ Tables(issued[Len(issued)].result) # Tables(config.DEFAULT_RESULTS)

\* The blobs cache_result writes for the results an upload can hold.
CompleteBlobs == { to_msgpack(Tables(r)) : r \in AnalysisResults }

\* C19: every entry of the store is the complete encoding of a valid
\* result, and a step in which an upload fails writes no entry and returns no key.
C19_AllOrNothing ==
    [][/\ \A key \in DOMAIN store' : store'[key].blob \in CompleteBlobs
       /\ \A w \in Workers :
              (/\ up[w].pc \in {"saved", "extracted", "removed"}
               /\ up'[w].pc = "done"
               /\ up'[w].response.status # 200) =>
                  /\ store' = store
                  /\ issued' = issued
                  /\ up'[w].response = InternalServerError]_vars

\* An upload failed in its extraction while the store held an entry, which is kept.
C19_Witness ==
    \E w1, w2 \in Workers :
        /\ up[w1].pc = "done"
        /\ up[w1].extracted = 1
        /\ up[w1].response = InternalServerError
        /\ up[w2].pc = "done"
        /\ up[w2].response.status = 200
        /\ up[w2].response.result_key \in DOMAIN store
        /\ store[up[w2].response.result_key].blob \in CompleteBlobs

====
